---- MODULE Spec2Model ----
(***************************************************************************)
(* Defect-Detection desktop application: the detection worker              *)
(* (detection.py, DetectionThread), the window that controls it            *)
(* (app_ui.py, MainWindow) and the aggregation store (database.py,         *)
(* Database).                                                              *)
(*                                                                         *)
(* Specifications:                                                         *)
(*   SpecTrack    DetectionThread.annotate_frame called frame after frame  *)
(*                (object tracker and line-crossing detector)              *)
(*   SpecWatch    count_detections + handle_detections called frame after  *)
(*                frame (consecutive-defect watchdog)                      *)
(*   SpecFrame    the body of one iteration of process_video's loop        *)
(*   SpecPipeline the worker threads interleaved with the GUI thread       *)
(*   SpecStore    Database.insert_result with storage faults               *)
(***************************************************************************)
EXTENDS Integers, Sequences, FiniteSets, TLC

VARIABLES
  \* ---- DetectionThread fields, one worker object per index -------------
  running,                    \* self.running
  paused,                     \* self.paused
  consecutive_damaged_count,  \* self.consecutive_damaged_count
  line_y_position,            \* self.line_y_position (None until first frame)
  tracked_objects,            \* self.tracked_objects  (dict id -> y2)
  source,                     \* self.source
  model,                      \* self.model is not None
  \* ---- the worker thread: where it is in run()/process_video() ---------
  wpc,                        \* position of the thread
  cap,                        \* the cv2.VideoCapture it holds
  \* ---- MainWindow ------------------------------------------------------
  detection_thread,           \* self.detection_thread (None or a worker)
  consecutive_defective_count,\* self.consecutive_defective_count
  ui,                         \* what the GUI thread is doing
  queue,                      \* detection_result signals queued to the GUI
  \* ---- Database --------------------------------------------------------
  detection_results,          \* table detection_results (the event log)
  defect_summary,             \* table defect_summary    (date -> row)
  defect_trends,              \* table defect_trends     (period -> row)
  \* ---- observation of the last step (history, not program state) -------
  emitted,                    \* signals emitted by the last step, in order
  last,                       \* what the last step was and what it was given
  hist,                       \* per identity: its positions since first seen
  fires,                      \* per identity: crossing events since first seen
  pause_obs                   \* per worker: reads and inferences made while paused

vars == << running, paused, consecutive_damaged_count, line_y_position,
           tracked_objects, source, model, wpc, cap,
           detection_thread, consecutive_defective_count, ui, queue,
           detection_results, defect_summary, defect_trends,
           emitted, last, hist, fires, pause_obs >>

workerVars == << running, paused, consecutive_damaged_count, line_y_position,
                 tracked_objects, source, model, wpc, cap >>
uiVars     == << detection_thread, consecutive_defective_count, ui, queue >>
storeVars  == << detection_results, defect_summary, defect_trends >>
trackObs   == << hist, fires >>

None  == << >>          \* Python's None, for a field that otherwise holds a value
Some(v) == << v >>
TheOf(o) == o[1]

(***************************************************************************)
(* Bounds of the model.                                                    *)
(***************************************************************************)
MaxWorkers == 2     \* DetectionThread objects constructed in one behaviour
MaxBoxes   == 2     \* detections in one frame given to annotate_frame
MaxFrameBoxes == 1  \* detections in one frame of SpecFrame
MaxBurst   == 10    \* defective detections in one frame given to the watchdog
MaxQueue   == 10    \* detection_result signals waiting for the GUI thread
MaxLog     == 3     \* rows of detection_results

Workers == 1 .. MaxWorkers

(***************************************************************************)
(* Program constants.                                                      *)
(***************************************************************************)
FrameHeight == 600                        \* cv2.resize(frame, (800, 600))
LineY       == (FrameHeight * 35) \div 100 \* int(frame.shape[0] * 0.35)
Threshold   == 10                         \* consecutive_damaged_count >= 10
UiThreshold == 10                         \* consecutive_defective_count >= 10

class_names == << "Damaged-Open", "Damaged-Deformed", "Intact" >>
Labels      == { "Intact", "Damaged-Deformed", "Damaged-Open" }

(***************************************************************************)
(* Python dict helpers.                                                    *)
(***************************************************************************)
EmptyDict == [k \in {} |-> 0]

Put(d, k, v) == [x \in (DOMAIN d) \cup {k} |-> IF x = k THEN v ELSE d[x]]

Restrict(d, keys) == [x \in (DOMAIN d) \cap keys |-> d[x]]

(***************************************************************************)
(* Detections.  A box is what annotate_frame reads of one element of       *)
(* results[0].boxes: int(x1), int(x2), int(y2) and int(cls).               *)
(***************************************************************************)
X1s  == {1, 2}
X2s  == {4}
Y2s  == {LineY - 1, LineY}
Clss == {0, 2, 3}          \* 3: a class index with no name

Box(x1, x2, y2, cls) == [x1 |-> x1, x2 |-> x2, y2 |-> y2, cls |-> cls]

Boxes == { Box(a, b, y, c) : a \in X1s, b \in X2s, y \in Y2s, c \in Clss }

SeqsUpTo(S, n) == UNION { [1 .. k -> S] : k \in 0 .. n }

ObjectId(box) == (box.x1 + box.x2) \div 2

Ids == { ObjectId(b) : b \in Boxes }

(***************************************************************************)
(* Signals.                                                                *)
(***************************************************************************)
Sig(name, arg) == [sig |-> name, arg |-> arg]

Results(evs) == SelectSeq(evs, LAMBDA e : e.sig = "detection_result")

Warnings(evs) == SelectSeq(evs, LAMBDA e : e.sig = "warning_signal")

(***************************************************************************)
(* DetectionThread.annotate_frame.                                         *)
(* st = [tracked, current, events, fired]: self.tracked_objects,           *)
(* current_frame_objects, the signals emitted so far and the identities    *)
(* that fired.                                                             *)
(***************************************************************************)
CrossedMut(old_y, line, y2) == old_y <= line /\ line <= y2

Crossed(old_y, line, y2) == old_y < line /\ line <= y2

AnnotateBoxNoAdvance(st, line, box) ==
  IF box.cls >= Len(class_names) THEN st
  ELSE
    LET object_id == ObjectId(box)
        label     == class_names[box.cls + 1]
        cur       == Put(st.current, object_id, box.y2)
    IN  IF object_id \in DOMAIN st.tracked
        THEN IF Crossed(st.tracked[object_id], line, box.y2)
             THEN [ tracked |-> st.tracked,
                    current |-> cur,
                    events  |-> st.events \o
                                << Sig("log_message", <<label, "object crossed the line.">>),
                                   Sig("detection_result", label) >>,
                    fired   |-> Append(st.fired, object_id) ]
             ELSE [st EXCEPT !.current = cur]
        ELSE [st EXCEPT !.current = cur,
                        !.tracked = Put(st.tracked, object_id, box.y2)]

AnnotateBoxTracksEveryFrame(st, line, box) ==
  IF box.cls >= Len(class_names) THEN st
  ELSE
    LET object_id == ObjectId(box)
        label     == class_names[box.cls + 1]
        cur       == Put(st.current, object_id, box.y2)
    IN  IF object_id \in DOMAIN st.tracked
        THEN IF Crossed(st.tracked[object_id], line, box.y2)
             THEN [ tracked |-> Put(st.tracked, object_id, box.y2),
                    current |-> cur,
                    events  |-> st.events \o
                                << Sig("log_message", <<label, "object crossed the line.">>),
                                   Sig("detection_result", label) >>,
                    fired   |-> Append(st.fired, object_id) ]
             ELSE [st EXCEPT !.current = cur,
                             !.tracked = Put(st.tracked, object_id, box.y2)]
        ELSE [st EXCEPT !.current = cur,
                        !.tracked = Put(st.tracked, object_id, box.y2)]

AnnotateBox(st, line, box) ==
  IF box.cls >= Len(class_names) THEN st
  ELSE
    LET object_id == ObjectId(box)
        label     == class_names[box.cls + 1]
        cur       == Put(st.current, object_id, box.y2)
    IN  IF object_id \in DOMAIN st.tracked
        THEN IF Crossed(st.tracked[object_id], line, box.y2)
             THEN [ tracked |-> Put(st.tracked, object_id, box.y2),
                    current |-> cur,
                    events  |-> st.events \o
                                << Sig("log_message", <<label, "object crossed the line.">>),
                                   Sig("detection_result", label) >>,
                    fired   |-> Append(st.fired, object_id) ]
             ELSE [st EXCEPT !.current = cur]
        ELSE [st EXCEPT !.current = cur,
                        !.tracked = Put(st.tracked, object_id, box.y2)]

RECURSIVE AnnotateLoop(_, _, _)
AnnotateLoop(st, line, boxes) ==
  IF boxes = << >> THEN st
  ELSE AnnotateLoop(AnnotateBox(st, line, Head(boxes)), line, Tail(boxes))

LineOf(line_y) == IF line_y = None THEN LineY ELSE TheOf(line_y)

AnnotateFrameResultNoEvict(tracked, line_y, boxes) ==
  LET line == LineOf(line_y)
      st   == AnnotateLoop([ tracked |-> tracked, current |-> EmptyDict,
                             events |-> << >>, fired |-> << >> ], line, boxes)
  IN  [ tracked |-> st.tracked,
        line    |-> line,
        current |-> st.current,
        events  |-> st.events,
        fired   |-> st.fired ]

AnnotateFrameResult(tracked, line_y, boxes) ==
  LET line == LineOf(line_y)
      st   == AnnotateLoop([ tracked |-> tracked, current |-> EmptyDict,
                             events |-> << >>, fired |-> << >> ], line, boxes)
  IN  [ tracked |-> Restrict(st.tracked, DOMAIN st.current),
        line    |-> line,
        current |-> st.current,
        events  |-> st.events,
        fired   |-> st.fired ]

(***************************************************************************)
(* DetectionThread.count_detections and DetectionThread.handle_detections. *)
(***************************************************************************)
CountCls(boxes, c) == Cardinality({ i \in DOMAIN boxes : boxes[i].cls = c })

count_detections(boxes) ==
  [ l \in Labels |-> CASE l = "Intact"           -> CountCls(boxes, 2)
                       [] l = "Damaged-Deformed" -> CountCls(boxes, 1)
                       [] l = "Damaged-Open"     -> CountCls(boxes, 0) ]

Rep(x, n) == [i \in 1 .. n |-> x]

Defective(class_counts) ==
  class_counts["Damaged-Deformed"] + class_counts["Damaged-Open"]

\* for cls, count in class_counts.items(): count emissions of cls, in the
\* order count_detections builds the dict
ClassEmissions(class_counts) ==
     Rep(Sig("detection_result", "Intact"), class_counts["Intact"])
  \o Rep(Sig("detection_result", "Damaged-Deformed"), class_counts["Damaged-Deformed"])
  \o Rep(Sig("detection_result", "Damaged-Open"), class_counts["Damaged-Open"])

TripEvents ==
  << Sig("warning_signal", "Warning: 10 consecutive defective items detected. Pausing detection."),
     Sig("pause_trigger", "paused") >>

TrippedMut(count) == count > Threshold

Tripped(count) == count >= Threshold

HandleDetectionsResultCarriesExcess(count, is_paused, class_counts) ==
  LET defective_count == Defective(class_counts)
      added           == count + defective_count
  IN  IF defective_count > 0
      THEN IF Tripped(added)
           THEN [ count |-> added - Threshold, paused |-> TRUE,
                  events |-> TripEvents \o ClassEmissions(class_counts) ]
           ELSE [ count |-> added, paused |-> is_paused,
                  events |-> ClassEmissions(class_counts) ]
      ELSE [ count |-> 0, paused |-> is_paused,
             events |-> ClassEmissions(class_counts) ]

HandleDetectionsResultToggles(count, is_paused, class_counts) ==
  LET defective_count == Defective(class_counts)
      added           == count + defective_count
  IN  IF defective_count > 0
      THEN IF Tripped(added)
           THEN [ count |-> 0, paused |-> ~is_paused,
                  events |-> TripEvents \o ClassEmissions(class_counts) ]
           ELSE [ count |-> added, paused |-> is_paused,
                  events |-> ClassEmissions(class_counts) ]
      ELSE [ count |-> 0, paused |-> is_paused,
             events |-> ClassEmissions(class_counts) ]

HandleDetectionsResult(count, is_paused, class_counts) ==
  LET defective_count == Defective(class_counts)
      added           == count + defective_count
  IN  IF defective_count > 0
      THEN IF Tripped(added)
           THEN [ count |-> 0, paused |-> TRUE,
                  events |-> TripEvents \o ClassEmissions(class_counts) ]
           ELSE [ count |-> added, paused |-> is_paused,
                  events |-> ClassEmissions(class_counts) ]
      ELSE [ count |-> 0, paused |-> is_paused,
             events |-> ClassEmissions(class_counts) ]

(***************************************************************************)
(* The state after construction: MainWindow.__init__ has run, no worker    *)
(* exists yet, the database holds no row.  A worker's fields are those     *)
(* DetectionThread.__init__ sets, from the moment it is constructed.       *)
(***************************************************************************)
W0 == 1   \* the worker the single-threaded specifications drive

InitFields ==
  /\ running                   = [w \in Workers |-> FALSE]
  /\ paused                    = [w \in Workers |-> FALSE]
  /\ consecutive_damaged_count = [w \in Workers |-> 0]
  /\ line_y_position           = [w \in Workers |-> None]
  /\ tracked_objects           = [w \in Workers |-> EmptyDict]

InitWindow ==
  /\ detection_thread            = None
  /\ consecutive_defective_count = 0
  /\ ui                          = [pc |-> "idle"]
  /\ queue                       = << >>

InitStore ==
  /\ detection_results = << >>
  /\ defect_summary    = EmptyDict
  /\ defect_trends     = EmptyDict

NotPaused == [by |-> "nobody", reads |-> 0, infers |-> 0]

PausedBy(who) == [by |-> who, reads |-> 0, infers |-> 0]

InitObs ==
  /\ emitted      = << >>
  /\ last         = [op |-> "init", ones |-> 0, faulted |-> FALSE]
  /\ hist         = [i \in Ids |-> "none"]
  /\ fires        = [i \in Ids |-> 0]
  /\ pause_obs    = [w \in Workers |-> NotPaused]

\* One worker, constructed with a loaded model, whose methods are called
\* from one thread.
InitOneWorker ==
  /\ InitFields /\ InitWindow /\ InitStore /\ InitObs
  /\ source = [w \in Workers |-> IF w = W0 THEN "webcam" ELSE "unset"]
  /\ model  = [w \in Workers |-> w = W0]
  /\ wpc    = [w \in Workers |-> IF w = W0 THEN "method" ELSE "unborn"]
  /\ cap    = [w \in Workers |-> "none"]

(***************************************************************************)
(* What the tracker specification observes of an identity: where all its   *)
(* boxes of a frame are (A above the line, B at or below it, M both), and  *)
(* the summary of where it has been since it was first seen.               *)
(***************************************************************************)
KnownYs(boxes, id) ==
  { boxes[i].y2 : i \in { j \in DOMAIN boxes :
                            /\ boxes[j].cls < Len(class_names)
                            /\ ObjectId(boxes[j]) = id } }

Pos(boxes, id, line) ==
  LET ys == KnownYs(boxes, id)
  IN  IF ys = {} THEN "absent"
      ELSE IF \A y \in ys : y < line THEN "A"
      ELSE IF \A y \in ys : y >= line THEN "B"
      ELSE "M"

HistNext(h, pos) ==
  CASE pos = "absent" -> "none"
    [] pos # "absent" /\ h = "none" ->
         (IF pos = "A" THEN "A" ELSE IF pos = "B" THEN "B" ELSE "X")
    [] pos # "absent" /\ h = "A" ->
         (IF pos = "A" THEN "A" ELSE IF pos = "B" THEN "AB" ELSE "X")
    [] pos # "absent" /\ h \in {"AB", "ABB"} ->
         (IF pos = "B" THEN "ABB" ELSE "X")
    [] pos # "absent" /\ h = "B" ->
         (IF pos = "B" THEN "B" ELSE "BA")
    [] pos # "absent" /\ h = "BA" ->
         (IF pos = "B" THEN "BAB" ELSE "BA")
    [] pos # "absent" /\ h = "BAB" -> "BAB"
    [] pos # "absent" /\ h = "X" -> "X"

Occurrences(s, x) == Cardinality({ i \in DOMAIN s : s[i] = x })

ObserveTrack(boxes, line, fired) ==
  /\ hist'  = [i \in Ids |-> HistNext(hist[i], Pos(boxes, i, line))]
  /\ fires' = [i \in Ids |->
                 IF Pos(boxes, i, line) = "absent" THEN 0
                 ELSE (IF hist[i] = "none" THEN 0 ELSE fires[i])
                      + Occurrences(fired, i)]

(***************************************************************************)
(* SpecTrack: annotate_frame, frame after frame.                           *)
(***************************************************************************)
\* The identities that have exactly one box in the frame.
Singles(boxes) ==
  { id \in Ids :
      Cardinality({ j \in DOMAIN boxes : /\ boxes[j].cls < Len(class_names)
                                         /\ ObjectId(boxes[j]) = id }) = 1 }

\* annotate_frame reads of cls only whether it names a class and which
\* label it gives: one class and one value out of range are enough.
TrackBoxes == { b \in Boxes : b.cls # 0 }

TrackFrames == SeqsUpTo(TrackBoxes, MaxBoxes)

AnnotateFrame(w, boxes) ==
  LET r == AnnotateFrameResult(tracked_objects[w], line_y_position[w], boxes)
  IN  /\ tracked_objects' = [tracked_objects EXCEPT ![w] = r.tracked]
      /\ line_y_position' = [line_y_position EXCEPT ![w] = Some(r.line)]
      /\ emitted' = r.events
      /\ last' = [op |-> "annotate_frame", ones |-> 0,
                  current |-> r.current, fired |-> r.fired,
                  single |-> Singles(boxes),
                  stored |-> tracked_objects[w],
                  prev |-> IF last.op = "annotate_frame"
                           THEN Restrict(last.current, last.single)
                           ELSE EmptyDict]
      /\ ObserveTrack(boxes, r.line, r.fired)
      /\ UNCHANGED << running, paused, consecutive_damaged_count, source,
                      model, wpc, cap, uiVars, storeVars, pause_obs >>

NextTrack == \E boxes \in TrackFrames : AnnotateFrame(W0, boxes)

SpecTrack == InitOneWorker /\ [][NextTrack]_vars

(***************************************************************************)
(* SpecWatch: count_detections and handle_detections, frame after frame,   *)
(* as process_video calls them (lines 157-158) while the worker is not     *)
(* paused; toggle_pause resumes it.                                        *)
(***************************************************************************)
WatchBox(c) == Box(1, 4, LineY - 1, c)

WatchFrame(i, a, b) == Rep(WatchBox(2), i) \o Rep(WatchBox(1), a) \o Rep(WatchBox(0), b)

WatchFrames ==
  { WatchFrame(i, a, b) : i \in 0 .. 1, a \in 0 .. 1, b \in 0 .. MaxBurst }

\* Frames of one defective detection each, counted since the count was 0.
OnesNext(pre, class_counts) ==
  IF Defective(class_counts) # 1 THEN 0
  ELSE IF pre = 0 THEN 1
  ELSE IF last.ones > 0 THEN last.ones + 1
  ELSE 0

HandleDetections(w, boxes) ==
  LET class_counts == count_detections(boxes)
      r == HandleDetectionsResult(consecutive_damaged_count[w], paused[w], class_counts)
  IN  /\ consecutive_damaged_count' = [consecutive_damaged_count EXCEPT ![w] = r.count]
      /\ paused' = [paused EXCEPT ![w] = r.paused]
      /\ emitted' = r.events
      /\ last' = [op |-> "handle_detections",
                  ones |-> OnesNext(consecutive_damaged_count[w], class_counts),
                  pre |-> consecutive_damaged_count[w],
                  counts |-> class_counts]
      /\ UNCHANGED << running, line_y_position, tracked_objects, source, model,
                      wpc, cap, uiVars, storeVars, trackObs, pause_obs >>

\* DetectionThread.toggle_pause, called by the named caller
TogglePauseCalledBy(w, caller) ==
  /\ paused' = [paused EXCEPT ![w] = ~paused[w]]
  /\ emitted' = << Sig("log_message",
                       IF ~paused[w] THEN "Detection thread paused."
                       ELSE "Detection thread resumed.") >>
  /\ last' = [op |-> "toggle_pause", ones |-> last.ones, caller |-> caller]
  /\ pause_obs' = [pause_obs EXCEPT ![w] =
                     IF paused[w] THEN NotPaused ELSE PausedBy("toggle_pause")]
  /\ UNCHANGED << running, consecutive_damaged_count, line_y_position,
                  tracked_objects, source, model, wpc, cap, uiVars, storeVars,
                  trackObs >>

TogglePause(w) == TogglePauseCalledBy(w, "toggle_pause")

WatchStep == \E boxes \in WatchFrames : ~paused[W0] /\ HandleDetections(W0, boxes)

NextWatch == WatchStep \/ TogglePause(W0)

SpecWatch == InitOneWorker /\ [][NextWatch]_vars

(***************************************************************************)
(* The body of one iteration of process_video's loop once a frame has been *)
(* read (lines 129-170).  outcome is what self.model.predict gives: the    *)
(* boxes of results[0], no results at all, or an exception.                *)
(***************************************************************************)
Predicted(boxes) == [kind |-> "boxes", boxes |-> boxes]
NoResults        == [kind |-> "empty", boxes |-> << >>]
Raises           == [kind |-> "raise", boxes |-> << >>]
\* an exception after frame_processed.emit (lines 155-165)
RaisesLate(boxes) == [kind |-> "raise_late", boxes |-> boxes]

ProcessFrameResult(w, outcome) ==
  IF outcome.kind = "raise"
  THEN [ tracked |-> tracked_objects[w], line |-> line_y_position[w],
         count |-> consecutive_damaged_count[w], paused |-> paused[w],
         current |-> EmptyDict, fired |-> << >>,
         events |-> << Sig("log_message", "Error during detection") >> ]
  ELSE IF outcome.kind = "empty"
  THEN [ tracked |-> tracked_objects[w], line |-> line_y_position[w],
         count |-> consecutive_damaged_count[w], paused |-> paused[w],
         current |-> EmptyDict, fired |-> << >>,
         events |-> << Sig("log_message", "No detection results found.") >> ]
  ELSE IF outcome.kind = "raise_late"
  THEN LET a == AnnotateFrameResult(tracked_objects[w], line_y_position[w],
                                    outcome.boxes)
       IN  [ tracked |-> a.tracked, line |-> Some(a.line),
             count |-> consecutive_damaged_count[w], paused |-> paused[w],
             current |-> a.current, fired |-> a.fired,
             events |-> a.events \o << Sig("frame_processed", "pixmap"),
                                       Sig("log_message", "Error during detection") >> ]
  ELSE
    LET a == AnnotateFrameResult(tracked_objects[w], line_y_position[w], outcome.boxes)
        class_counts == count_detections(outcome.boxes)
        h == HandleDetectionsResult(consecutive_damaged_count[w], paused[w], class_counts)
    IN  [ tracked |-> a.tracked, line |-> Some(a.line),
          count |-> h.count, paused |-> h.paused,
          current |-> a.current, fired |-> a.fired,
          events |-> a.events \o << Sig("frame_processed", "pixmap") >>
                     \o h.events \o << Sig("detection_summary", class_counts) >> ]

ProcessFrameFields(w, r) ==
  /\ tracked_objects' = [tracked_objects EXCEPT ![w] = r.tracked]
  /\ line_y_position' = [line_y_position EXCEPT ![w] = r.line]
  /\ consecutive_damaged_count' = [consecutive_damaged_count EXCEPT ![w] = r.count]
  /\ paused' = [paused EXCEPT ![w] = r.paused]

\* Identities present in the previous frame and in this one whose bottom
\* edge went from above the line to at or below it.
Crossers(prev, cur, line) ==
  { i \in (DOMAIN prev) \cap (DOMAIN cur) : prev[i] < line /\ line <= cur[i] }

PrevCurrent == IF last.op = "process_frame" THEN last.current ELSE EmptyDict

(***************************************************************************)
(* SpecFrame: one worker processing frame after frame.                     *)
(***************************************************************************)
FrameInputs ==
  { Predicted(b) : b \in SeqsUpTo(Boxes, MaxFrameBoxes) } \cup {NoResults, Raises}

FrameStep(outcome) ==
  LET r == ProcessFrameResult(W0, outcome)
      boxes == outcome.boxes
  IN  /\ ~paused[W0]
      /\ ProcessFrameFields(W0, r)
      /\ emitted' = r.events
      /\ last' = [op |-> "process_frame", ones |-> 0, current |-> r.current,
                  crossers |-> Crossers(PrevCurrent, r.current, LineY)]
      /\ ObserveTrack(boxes, LineY, r.fired)
      /\ UNCHANGED << running, source, model, wpc, cap, uiVars, storeVars,
                      pause_obs >>

NextFrame == (\E outcome \in FrameInputs : FrameStep(outcome)) \/ TogglePause(W0)

SpecFrame == InitOneWorker /\ [][NextFrame]_vars

(***************************************************************************)
(* C1.  An identity whose bottom edge never goes from above the line to at *)
(* or below it never causes a detection_result emission: a frame in which  *)
(* no identity goes from above the line (in the previous frame) to at or   *)
(* below it emits no detection_result.                                     *)
(* handle_detections emits one detection_result per detection of every     *)
(* frame, crossing or not, so this fails on the first frame that holds a   *)
(* detection.                                                              *)
(***************************************************************************)
C1_NoCrossingNoResult ==
  (last.op = "process_frame" /\ last.crossers = {})
     => Len(Results(emitted)) = 0

(***************************************************************************)
(* C2.  An identity present in every frame since it was first seen above   *)
(* the line, that then went at or below the line and stayed there (for any *)
(* number of further frames), has fired exactly one crossing event; while  *)
(* it is still above the line it has fired none.                           *)
(***************************************************************************)
C2_OneEventPerCrossing ==
  \A i \in Ids : /\ hist[i] \in {"AB", "ABB"} => fires[i] = 1
                 /\ hist[i] = "A" => fires[i] = 0

C2_Witness ==
  \E i \in Ids : hist[i] = "ABB" /\ fires[i] = 1 /\ last.fired = << >>

(***************************************************************************)
(* C3.  An identity whose bottom edge was at or below the line in the      *)
(* frame where it was first tracked has fired no crossing event, for as    *)
(* long as it stays tracked and wherever it has been since (also after it  *)
(* moved above the line and came back).                                    *)
(***************************************************************************)
C3_NoRetroactiveFire ==
  \A i \in Ids : hist[i] \in {"B", "BA", "BAB"} => fires[i] = 0

C3_Witness ==
  \E i \in Ids : hist[i] = "BAB" /\ fires[i] = 0 /\ i \in DOMAIN tracked_objects[W0]

(***************************************************************************)
(* C4.  The watchdog adds the defective detections of the frame to its     *)
(* count; in the frame where the count reaches Threshold or more it emits  *)
(* the warning once, sets paused and leaves the count at 0; below the      *)
(* threshold it emits no warning and keeps the sum.  Ten frames of one     *)
(* defect each from a count of 0 trip at the tenth and not before.         *)
(***************************************************************************)
C4_WatchdogTrips ==
  (last.op = "handle_detections" /\ Defective(last.counts) > 0) =>
     LET d == Defective(last.counts)
         warnings == Len(Warnings(emitted))
         pauses == Len(SelectSeq(emitted, LAMBDA e : e.sig = "pause_trigger"))
         count == consecutive_damaged_count[W0]
     IN  /\ (last.pre + d >= Threshold) =>
               (warnings = 1 /\ pauses = 1 /\ paused[W0] /\ count = 0)
         /\ (last.pre + d < Threshold) =>
               (warnings = 0 /\ pauses = 0 /\ ~paused[W0] /\ count = last.pre + d)
         /\ (last.ones > 0) => (last.ones <= Threshold /\ last.pre + 1 = last.ones)
         /\ (last.ones = Threshold) <=> (last.ones > 0 /\ warnings = 1)

C4_Witness ==
  /\ last.op = "handle_detections"
  /\ last.ones = Threshold
  /\ Len(Warnings(emitted)) = 1
  /\ paused[W0]
  /\ consecutive_damaged_count[W0] = 0

(***************************************************************************)
(* C5.  When the count is 9 and an Intact event occurs, the watchdog does  *)
(* not trip and the count starts again from 0.  handle_detections resets   *)
(* the count only in a frame with no defective detection: a frame with an  *)
(* Intact and a defective detection adds to the count and trips.           *)
(***************************************************************************)
C5_IntactAtNineResets ==
  ( /\ last.op = "handle_detections"
    /\ last.pre = Threshold - 1
    /\ last.counts["Intact"] > 0
    /\ Defective(last.counts) < Threshold )
     => ( /\ Len(Warnings(emitted)) = 0
          /\ ~paused[W0]
          /\ consecutive_damaged_count[W0] <= Defective(last.counts) )

(***************************************************************************)
(* Database.  A timestamp "%Y-%m-%d %H:%M:%S" is modelled by its date      *)
(* << year, month, day >>; the time of day enters no rollup.               *)
(***************************************************************************)
Timestamps == { <<2024, 3, 1>>, <<2024, 3, 2>>, <<2025, 3, 1>> }

MonthNames == [ n \in {3, 4} |-> IF n = 3 THEN "March" ELSE "April" ]

StrfYear(ts)      == ts[1]                  \* date_obj.strftime("%Y")
StrfMonthName(ts) == MonthNames[ts[2]]      \* date_obj.strftime("%B")
StrfDate(ts)      == << ts[1], ts[2], ts[3] >>  \* strftime("%Y-%m-%d"), DATE(timestamp)
StrfYearMonth(d)  == << d[1], d[2] >>       \* strftime('%Y-%m', ...)

\* details as MainWindow.update_counters words them
Details(status) ==
  CASE status = "Intact"           -> "Box is intact and properly sealed."
    [] status = "Damaged-Deformed" -> "Box is deformed or punctured."
    [] status = "Damaged-Open"     -> "Box is improperly sealed or open."

LogRow(ts, status, details) ==
  [ timestamp |-> ts, year |-> StrfYear(ts), month |-> StrfMonthName(ts),
    status |-> status, details |-> details ]

\* WHERE DATE(timestamp) = ?
RowsOfDate(log, date) ==
  { i \in DOMAIN log : StrfDate(log[i].timestamp) = date }

\* WHERE strftime('%Y-%m', timestamp) = ?
RowsOfMonth(log, date) ==
  { i \in DOMAIN log :
      StrfYearMonth(StrfDate(log[i].timestamp)) = StrfYearMonth(date) }

CountStatus(log, rows, status) ==
  Cardinality({ i \in rows : log[i].status = status })

\* SELECT COUNT(*), SUM(CASE WHEN status = ... ) over the selected rows
Aggregate(log, rows) ==
  [ total |-> Cardinality(rows),
    intact_count |-> CountStatus(log, rows, "Intact"),
    damaged_deformed_count |-> CountStatus(log, rows, "Damaged-Deformed"),
    damaged_open_count |-> CountStatus(log, rows, "Damaged-Open") ]

UpsertTotalOnly(table, key, year, month, agg) ==
  Put(table, key,
      IF key \in DOMAIN table
      THEN [ table[key] EXCEPT !.total = agg.total ]
      ELSE [ year |-> year, month |-> month, total |-> agg.total,
             intact_count |-> agg.intact_count,
             damaged_deformed_count |-> agg.damaged_deformed_count,
             damaged_open_count |-> agg.damaged_open_count ])

\* INSERT ... ON CONFLICT(key) DO UPDATE SET the four counts: a new row takes
\* year and month from the statement, an existing row keeps its own.
Upsert(table, key, year, month, agg) ==
  Put(table, key,
      [ year  |-> IF key \in DOMAIN table THEN table[key].year ELSE year,
        month |-> IF key \in DOMAIN table THEN table[key].month ELSE month,
        total |-> agg.total,
        intact_count |-> agg.intact_count,
        damaged_deformed_count |-> agg.damaged_deformed_count,
        damaged_open_count |-> agg.damaged_open_count ])

DateCounts(log, date) == Aggregate(log, RowsOfDate(log, date))

RowCounts(row) ==
  [ total |-> row.total, intact_count |-> row.intact_count,
    damaged_deformed_count |-> row.damaged_deformed_count,
    damaged_open_count |-> row.damaged_open_count ]

\* The log has events of the date and the date's row is missing or does
\* not hold their counts: an upsert for the date failed or was missed.
StaleRow(log, summary, date) ==
  /\ RowsOfDate(log, date) # {}
  /\ \/ date \notin DOMAIN summary
     \/ RowCounts(summary[date]) # DateCounts(log, date)

UpdateDefectSummaryIncrements(summary, log, date, year, month) ==
  LET one == Aggregate(log, {Len(log)})
  IN  IF date \in DOMAIN summary
      THEN Put(summary, date,
               [ summary[date] EXCEPT
                   !.total = @ + one.total,
                   !.intact_count = @ + one.intact_count,
                   !.damaged_deformed_count = @ + one.damaged_deformed_count,
                   !.damaged_open_count = @ + one.damaged_open_count ])
      ELSE Upsert(summary, date, year, month, one)

UpdateDefectSummaryLastOnly(summary, log, date, year, month) ==
  Upsert(summary, date, year, month, Aggregate(log, {Len(log)}))

\* Database.update_defect_summary: GROUP BY DATE(timestamp) gives no row when
\* no log row has the date.
UpdateDefectSummary(summary, log, date, year, month) ==
  LET rows == RowsOfDate(log, date)
  IN  IF rows = {} THEN summary
      ELSE Upsert(summary, date, year, month, Aggregate(log, rows))

TrendPeriod(date, month) == month

\* Database.update_defect_trends: the row is keyed by the month's name.
UpdateDefectTrends(trends, log, date, year, month) ==
  LET rows == RowsOfMonth(log, date)
  IN  Upsert(trends, TrendPeriod(date, month), year, month, Aggregate(log, rows))

(***************************************************************************)
(* Database.insert_result.  fault names the statement whose execute raises *)
(* sqlite3.Error: "log" (the INSERT into detection_results), "summary",    *)
(* "trends", "rollups" (both upserts) or "none".  Every sqlite3.Error is   *)
(* caught and printed where it is raised; insert_result returns None.      *)
(***************************************************************************)
Faults == { "none", "log", "summary", "trends", "rollups" }

\* What insert_result leaves in the three tables.
InsertResultStore(log, summary, trends, ts, status, details, fault) ==
  LET year  == StrfYear(ts)
      month == StrfMonthName(ts)
      date  == StrfDate(ts)
      log1  == Append(log, LogRow(ts, status, details))
  IN  IF fault = "log"
      THEN [ log |-> log, summary |-> summary, trends |-> trends ]
      ELSE [ log |-> log1,
             summary |->
               IF fault \in {"summary", "rollups"} THEN summary
               ELSE UpdateDefectSummary(summary, log1, date, year, month),
             trends |->
               IF fault \in {"trends", "rollups"} THEN trends
               ELSE UpdateDefectTrends(trends, log1, date, year, month) ]

InsertResult(ts, status, details, fault) ==
  LET st == InsertResultStore(detection_results, defect_summary, defect_trends,
                              ts, status, details, fault)
  IN  /\ Len(detection_results) < MaxLog
      /\ detection_results' = st.log
      /\ defect_summary' = st.summary
      /\ defect_trends' = st.trends
      /\ emitted' = << >>
      /\ last' = [ op |-> "insert_result", ones |-> 0, fault |-> fault,
                   raised |-> FALSE, date |-> StrfDate(ts), ts |-> ts,
                   stale |-> StaleRow(detection_results, defect_summary,
                                      StrfDate(ts)),
                   faulted |-> (last.faulted \/ fault # "none") ]
      /\ UNCHANGED << workerVars, uiVars, trackObs, pause_obs >>

\* ORDER BY timestamp DESC on the TEXT column: the zero-padded
\* "%Y-%m-%d %H:%M:%S" strings compare as their fields do, in order.
TsLess(a, b) ==
  \/ a[1] < b[1]
  \/ a[1] = b[1] /\ a[2] < b[2]
  \/ a[1] = b[1] /\ a[2] = b[2] /\ a[3] < b[3]

InsertionOrder(log) == { [i \in DOMAIN log |-> i] }

\* The orders in which SELECT ... ORDER BY timestamp DESC may give the rows
\* of the log: rows of equal timestamp come in any order.
DescOrders(log) ==
  { p \in [DOMAIN log -> DOMAIN log] :
      /\ \A i, j \in DOMAIN log : i # j => p[i] # p[j]
      /\ \A i, j \in DOMAIN log :
           i < j => ~TsLess(log[p[i]].timestamp, log[p[j]].timestamp) }

FetchedRow(r) == << r.timestamp, r.status, r.details >>

\* Database.fetch_all_results: the rows, or [] when the SELECT raises
\* sqlite3.Error, which is printed.
FetchAllResults ==
  /\ \/ \E p \in DescOrders(detection_results) :
          last' = [ op |-> "fetch_all_results", ones |-> 0, raised |-> FALSE,
                    fault |-> "none", faulted |-> last.faulted,
                    rows |-> [i \in DOMAIN detection_results |->
                                FetchedRow(detection_results[p[i]])] ]
     \/ last' = [ op |-> "fetch_all_results", ones |-> 0, raised |-> FALSE,
                  fault |-> "select", faulted |-> last.faulted, rows |-> << >> ]
  /\ emitted' = << >>
  /\ UNCHANGED << workerVars, uiVars, storeVars, trackObs, pause_obs >>

StoreInsert ==
  \E ts \in Timestamps, status \in Labels, fault \in Faults :
     InsertResult(ts, status, Details(status), fault)

NextStore == StoreInsert \/ FetchAllResults

InitNoWorker ==
  /\ InitFields /\ InitWindow /\ InitStore /\ InitObs
  /\ source = [w \in Workers |-> "unset"]
  /\ model  = [w \in Workers |-> FALSE]
  /\ wpc    = [w \in Workers |-> "unborn"]
  /\ cap    = [w \in Workers |-> "none"]

SpecStore == InitNoWorker /\ [][NextStore]_vars

(***************************************************************************)
(* C9.  record(event) is atomic: when the log append or one of the rollup  *)
(* upserts fails, the failure is reported to the caller and the log and    *)
(* both rollups are as before the call.                                    *)
(* insert_result commits the log row before the rollups, each rollup       *)
(* catches and prints its own error, and nothing is raised or returned.    *)
(***************************************************************************)
C9_RecordAtomic ==
  [][ (last'.op = "insert_result" /\ last'.fault # "none")
        => (UNCHANGED storeVars /\ last'.raised) ]_vars

(***************************************************************************)
(* C10.  For every calendar month that has events, the defect_trends row   *)
(* of that month has total_defects equal to the sum of defect_summary      *)
(* totals over the dates of that month (stated for histories without any   *)
(* storage fault).  defect_trends is keyed by the month's name alone, so   *)
(* the months of March 2024 and March 2025 share one row, which holds the  *)
(* count of whichever was recorded last.                                   *)
(***************************************************************************)
RECURSIVE SumTotals(_, _)
SumTotals(summary, dates) ==
  IF dates = {} THEN 0
  ELSE LET d == CHOOSE x \in dates : TRUE
       IN  (IF d \in DOMAIN summary THEN summary[d].total ELSE 0)
           + SumTotals(summary, dates \ {d})

LoggedMonths ==
  { StrfYearMonth(StrfDate(detection_results[i].timestamp)) : i \in DOMAIN detection_results }

C10_MonthEqualsSumOfDays ==
  (last.op \in {"init", "insert_result"} /\ ~last.faulted) =>
    \A ym \in LoggedMonths :
       LET dates == { StrfDate(t) : t \in { u \in Timestamps : StrfYearMonth(StrfDate(u)) = ym } }
           period == MonthNames[ym[2]]
       IN  /\ period \in DOMAIN defect_trends
           /\ defect_trends[period].total = SumTotals(defect_summary, dates)

(***************************************************************************)
(* The pipeline: the GUI thread (MainWindow's handlers, one at a time) and *)
(* the worker threads (DetectionThread.run).  A step of a worker is one    *)
(* read or write of a field the GUI thread also touches, or one call on    *)
(* the capture or the model.                                               *)
(*                                                                         *)
(* source "webcam" stands for start_webcam_detection's 0 and for a video   *)
(* file: process_video treats both alike (lines 110-123 differ in the log  *)
(* text only); "image" is a file with an image extension.                  *)
(*                                                                         *)
(* wpc: "unborn" (not constructed), "started" (QThread.start() called),    *)
(* "open" (line 95), "image" (line 44), "while" (103), "if_paused" (104),  *)
(* "read" (107), "body" (125-172), "release" (174), "finished".            *)
(***************************************************************************)
Sources == { "webcam", "image" }

IsRunning(w) == wpc[w] \notin {"unborn", "finished"}    \* QThread.isRunning()

Unborn == { w \in Workers : wpc[w] = "unborn" }

NewWorker == CHOOSE w \in Unborn : \A v \in Unborn : w <= v

Idle == [pc |-> "idle"]

Waiting(w, then, src) == [pc |-> "wait", w |-> w, then |-> then, src |-> src]

\* A field of every worker: the value set by __init__ for the worker n just
\* constructed; workers in D, finished and no longer referenced by the
\* window, are freed and hold nothing.
Upd(f, D, dv, n, nv) ==
  [w \in Workers |-> IF w = n THEN nv ELSE IF w \in D THEN dv ELSE f[w]]

Dropped(w) == IF wpc[w] = "finished" THEN {w} ELSE {}

FreeFields(D) ==
  /\ running'                   = Upd(running, D, FALSE, 0, FALSE)
  /\ paused'                    = Upd(paused, D, FALSE, 0, FALSE)
  /\ consecutive_damaged_count' = Upd(consecutive_damaged_count, D, 0, 0, 0)
  /\ line_y_position'           = Upd(line_y_position, D, None, 0, None)
  /\ tracked_objects'           = Upd(tracked_objects, D, EmptyDict, 0, EmptyDict)
  /\ source'                    = Upd(source, D, "unset", 0, "unset")
  /\ model'                     = Upd(model, D, FALSE, 0, FALSE)
  /\ pause_obs'                 = Upd(pause_obs, D, NotPaused, 0, NotPaused)
  /\ UNCHANGED << wpc, cap >>

\* self.detection_thread = DetectionThread(source, "models/best.pt"), the
\* three connects and start() (lines 299-303)
Launch(n, src, loaded, D) ==
  /\ running'                   = Upd(running, D, FALSE, n, FALSE)
  /\ paused'                    = Upd(paused, D, FALSE, n, FALSE)
  /\ consecutive_damaged_count' = Upd(consecutive_damaged_count, D, 0, n, 0)
  /\ line_y_position'           = Upd(line_y_position, D, None, n, None)
  /\ tracked_objects'           = Upd(tracked_objects, D, EmptyDict, n, EmptyDict)
  /\ source'                    = Upd(source, D, "unset", n, src)
  /\ model'                     = Upd(model, D, FALSE, n, loaded)
  /\ pause_obs'                 = Upd(pause_obs, D, NotPaused, n, NotPaused)
  /\ wpc'                       = [wpc EXCEPT ![n] = "started"]
  /\ detection_thread'          = Some(n)
  /\ UNCHANGED cap

UiStep(name) ==
  /\ emitted' = << >>
  /\ last' = [op |-> name, ones |-> 0]
  /\ UNCHANGED << storeVars, trackObs >>

StartDetectionNoStop(src) ==
  /\ ui.pc = "idle"
  /\ Unborn # {}
  /\ \E loaded \in BOOLEAN :
        Launch(NewWorker, src, loaded,
               IF detection_thread = None THEN {} ELSE Dropped(TheOf(detection_thread)))
  /\ UiStep("start_detection")
  /\ UNCHANGED << ui, consecutive_defective_count, queue >>

\* MainWindow.start_detection
StartDetection(src) ==
  /\ ui.pc = "idle"
  /\ Unborn # {}
  /\ IF detection_thread # None /\ IsRunning(TheOf(detection_thread))
     THEN \* stop_detection(): DetectionThread.stop() sets running and waits
          /\ running' = [running EXCEPT ![TheOf(detection_thread)] = FALSE]
          /\ ui' = Waiting(TheOf(detection_thread), "start_detection", src)
          /\ UNCHANGED << paused, consecutive_damaged_count, line_y_position,
                          tracked_objects, source, model, wpc, cap, pause_obs,
                          detection_thread >>
     ELSE /\ \E loaded \in BOOLEAN :
                Launch(NewWorker, src, loaded,
                       IF detection_thread = None THEN {}
                       ELSE Dropped(TheOf(detection_thread)))
          /\ UNCHANGED ui
  /\ UiStep("start_detection")
  /\ UNCHANGED << consecutive_defective_count, queue >>

\* MainWindow.stop_detection from the Stop button
StopDetection ==
  /\ ui.pc = "idle"
  /\ detection_thread # None
  /\ running' = [running EXCEPT ![TheOf(detection_thread)] = FALSE]
  /\ ui' = Waiting(TheOf(detection_thread), "stop_detection", "unset")
  /\ UiStep("stop_detection")
  /\ UNCHANGED << paused, consecutive_damaged_count, line_y_position,
                  tracked_objects, source, model, wpc, cap, pause_obs,
                  detection_thread, consecutive_defective_count, queue >>

\* QThread.wait() returns in DetectionThread.stop(); stop_detection drops the
\* worker, and the handler that called it goes on.
WaitReturns ==
  /\ ui.pc = "wait"
  /\ wpc[ui.w] = "finished"
  /\ ui' = Idle
  /\ \/ /\ ui.then = "stop_detection"
        /\ FreeFields({ui.w})
        /\ detection_thread' = None
        /\ UiStep("stopped")
        /\ UNCHANGED consecutive_defective_count
     \/ /\ ui.then = "update_counters"
        /\ FreeFields({ui.w})
        /\ detection_thread' = None
        /\ UiStep("stopped")
        /\ consecutive_defective_count' = 0
     \/ /\ ui.then = "start_detection"
        /\ \E loaded \in BOOLEAN : Launch(NewWorker, ui.src, loaded, {ui.w})
        /\ UiStep("restarted")
        /\ UNCHANGED consecutive_defective_count
  /\ UNCHANGED queue

\* MainWindow.pause_detection and MainWindow.resume_detection
PauseDetection ==
  /\ ui.pc = "idle"
  /\ detection_thread # None
  /\ TogglePauseCalledBy(TheOf(detection_thread), "pause_detection")

ResumeDetection ==
  /\ ui.pc = "idle"
  /\ detection_thread # None
  /\ TogglePauseCalledBy(TheOf(detection_thread), "resume_detection")

\* MainWindow.update_counters, the slot of detection_result.  The labels,
\* the table, the Arduino and Database.insert_result (InsertResult above)
\* do not touch the pipeline.
UpdateCounters ==
  /\ ui.pc = "idle"
  /\ queue # << >>
  /\ queue' = Tail(queue)
  /\ LET count == IF Head(queue) = "Intact" THEN 0
                  ELSE consecutive_defective_count + 1
     IN  IF count >= UiThreshold
         THEN IF detection_thread # None
              THEN /\ running' = [running EXCEPT ![TheOf(detection_thread)] = FALSE]
                   /\ ui' = Waiting(TheOf(detection_thread), "update_counters", "unset")
                   /\ consecutive_defective_count' = count
              ELSE /\ consecutive_defective_count' = 0
                   /\ UNCHANGED << running, ui >>
         ELSE /\ consecutive_defective_count' = count
              /\ UNCHANGED << running, ui >>
  /\ UiStep("update_counters")
  /\ UNCHANGED << paused, consecutive_damaged_count, line_y_position,
                  tracked_objects, source, model, wpc, cap, pause_obs,
                  detection_thread >>

(***************************************************************************)
(* The worker thread.                                                      *)
(***************************************************************************)
WorkerStep(w, events) ==
  /\ emitted' = events
  /\ UNCHANGED << last, storeVars, trackObs, detection_thread,
                  consecutive_defective_count, ui >>

\* DetectionThread.run, lines 37-46
Run(w) ==
  /\ wpc[w] = "started"
  /\ IF ~model[w]
     THEN /\ wpc' = [wpc EXCEPT ![w] = "finished"]
          /\ WorkerStep(w, << Sig("log_message", "Detection cannot start. Model not loaded.") >>)
          /\ UNCHANGED running
     ELSE /\ running' = [running EXCEPT ![w] = TRUE]
          /\ wpc' = [wpc EXCEPT ![w] = IF source[w] = "image" THEN "image" ELSE "open"]
          /\ WorkerStep(w, << >>)
  /\ UNCHANGED << paused, consecutive_damaged_count, line_y_position,
                  tracked_objects, source, model, cap, queue, pause_obs >>

\* process_video, lines 95-99
Open(w) ==
  /\ wpc[w] = "open"
  /\ \/ /\ cap' = [cap EXCEPT ![w] = "open"]
        /\ wpc' = [wpc EXCEPT ![w] = "while"]
        /\ WorkerStep(w, << >>)
     \/ /\ wpc' = [wpc EXCEPT ![w] = "finished"]
        /\ WorkerStep(w, << Sig("log_message", "Error: Could not open video source.") >>)
        /\ UNCHANGED cap
  /\ UNCHANGED << running, paused, consecutive_damaged_count, line_y_position,
                  tracked_objects, source, model, queue, pause_obs >>

\* while self.running:
While(w) ==
  /\ wpc[w] = "while"
  /\ wpc' = [wpc EXCEPT ![w] = IF running[w] THEN "if_paused" ELSE "release"]
  /\ WorkerStep(w, << >>)
  /\ UNCHANGED << running, paused, consecutive_damaged_count, line_y_position,
                  tracked_objects, source, model, cap, queue, pause_obs >>

IfPausedSkipped(w) ==
  /\ wpc[w] = "if_paused"
  /\ wpc' = [wpc EXCEPT ![w] = "read"]
  /\ WorkerStep(w, << >>)
  /\ UNCHANGED << running, paused, consecutive_damaged_count, line_y_position,
                  tracked_objects, source, model, cap, queue, pause_obs >>

\* if self.paused: continue
IfPaused(w) ==
  /\ wpc[w] = "if_paused"
  /\ wpc' = [wpc EXCEPT ![w] = IF paused[w] THEN "while" ELSE "read"]
  /\ WorkerStep(w, << >>)
  /\ UNCHANGED << running, paused, consecutive_damaged_count, line_y_position,
                  tracked_objects, source, model, cap, queue, pause_obs >>

ObserveRead(w) ==
  IF paused[w] THEN [pause_obs EXCEPT ![w].reads = @ + 1] ELSE pause_obs

\* ret, frame = cap.read() and the reconnection, lines 107-123
Read(w) ==
  /\ wpc[w] = "read"
  /\ \/ /\ wpc' = [wpc EXCEPT ![w] = "body"]          \* a frame
        /\ pause_obs' = ObserveRead(w)
        /\ WorkerStep(w, << >>)
        /\ UNCHANGED cap
     \/ /\ wpc' = [wpc EXCEPT ![w] = "while"]         \* reopened: continue
        /\ WorkerStep(w, << Sig("log_message", "End of video or failed to grab frame.") >>)
        /\ UNCHANGED << cap, pause_obs >>
     \/ /\ wpc' = [wpc EXCEPT ![w] = "release"]       \* not reopened: break
        /\ cap' = [cap EXCEPT ![w] = "unopened"]
        /\ WorkerStep(w, << Sig("log_message", "End of video or failed to grab frame."),
                           Sig("log_message", "Error: Could not reconnect.") >>)
        /\ UNCHANGED pause_obs
  /\ UNCHANGED << running, paused, consecutive_damaged_count, line_y_position,
                  tracked_objects, source, model, queue >>

\* What predict gives in the pipeline: no detection, or MaxBurst defective
\* detections above the line, when the GUI's queue has room for their
\* signals.
PipeOutcomes ==
  { Predicted(<< >>), NoResults, Raises, RaisesLate(<< WatchBox(0) >>) }
    \cup (IF Len(queue) + MaxBurst <= MaxQueue
          THEN { Predicted(Rep(WatchBox(0), MaxBurst)) } ELSE {})

ResultLabels(events) ==
  LET rs == Results(events) IN [i \in DOMAIN rs |-> rs[i].arg]

ObserveInfer(w, r) ==
  IF paused[w] THEN [pause_obs EXCEPT ![w].infers = @ + 1]
  ELSE IF r.paused THEN [pause_obs EXCEPT ![w] = PausedBy("watchdog")]
  ELSE pause_obs

BodyStopsOnError(w) ==
  /\ wpc[w] = "body"
  /\ \E outcome \in PipeOutcomes :
       LET r == ProcessFrameResult(w, outcome)
       IN  /\ ProcessFrameFields(w, r)
           /\ queue' = queue \o ResultLabels(r.events)
           /\ pause_obs' = ObserveInfer(w, r)
           /\ WorkerStep(w, r.events)
           /\ wpc' = [wpc EXCEPT ![w] =
                        IF outcome.kind \in {"raise", "raise_late"}
                        THEN "release" ELSE "while"]
  /\ UNCHANGED << running, source, model, cap >>

\* frame_count % self.frame_skip is 0 for the frame_skip of 1 the window
\* constructs every worker with; lines 129-172
Body(w) ==
  /\ wpc[w] = "body"
  /\ \E outcome \in PipeOutcomes :
       LET r == ProcessFrameResult(w, outcome)
       IN  /\ ProcessFrameFields(w, r)
           /\ queue' = queue \o ResultLabels(r.events)
           /\ pause_obs' = ObserveInfer(w, r)
           /\ WorkerStep(w, r.events)
  /\ wpc' = [wpc EXCEPT ![w] = "while"]
  /\ UNCHANGED << running, source, model, cap >>

\* cap.release() and the last log line, lines 174-175
Release(w) ==
  /\ wpc[w] = "release"
  /\ cap' = [cap EXCEPT ![w] = "released"]
  /\ wpc' = [wpc EXCEPT ![w] = "finished"]
  /\ WorkerStep(w, << Sig("log_message", "Video source released. Detection thread stopped.") >>)
  /\ UNCHANGED << running, paused, consecutive_damaged_count, line_y_position,
                  tracked_objects, source, model, queue, pause_obs >>

ProcessImageResult(w, outcome) ==
  LET r == ProcessFrameResult(w, outcome)
  IN  IF outcome.kind \in {"raise", "raise_late"}
      THEN [ r EXCEPT !.events =
               SubSeq(r.events, 1, Len(r.events) - 1)
                 \o << Sig("log_message", "Error during image processing") >> ]
      ELSE r

\* DetectionThread.process_image, lines 48-92: no look at self.paused
ProcessImage(w) ==
  /\ wpc[w] = "image"
  /\ wpc' = [wpc EXCEPT ![w] = "finished"]
  /\ \/ /\ WorkerStep(w, << Sig("log_message", "Error: Could not read image file.") >>)
        /\ UNCHANGED << paused, consecutive_damaged_count, line_y_position,
                        tracked_objects, queue, pause_obs >>
     \/ \E outcome \in PipeOutcomes :
          LET r == ProcessImageResult(w, outcome)
          IN  /\ ProcessFrameFields(w, r)
              /\ queue' = queue \o ResultLabels(r.events)
              /\ pause_obs' = [ObserveInfer(w, r) EXCEPT ![w].reads =
                                 IF paused[w] THEN @ + 1 ELSE @]
              /\ WorkerStep(w, r.events)
  /\ UNCHANGED << running, source, model, cap >>

Worker(w) ==
  \/ Run(w) \/ Open(w) \/ While(w) \/ IfPaused(w) \/ Read(w) \/ Body(w)
  \/ Release(w) \/ ProcessImage(w)

NextPipeline ==
  \/ \E src \in Sources : StartDetection(src)
  \/ StopDetection
  \/ PauseDetection
  \/ ResumeDetection
  \/ UpdateCounters
  \/ WaitReturns
  \/ \E w \in Workers : Worker(w)

SpecPipeline == InitNoWorker /\ [][NextPipeline]_vars

\* Both threads are scheduled: a thread that can take a step takes one.
SpecPipelineFair ==
  /\ SpecPipeline
  /\ \A w \in Workers : WF_vars(Worker(w))
  /\ WF_vars(WaitReturns)

(***************************************************************************)
(* Claims about the pipeline.                                              *)
(***************************************************************************)
Live(w) == wpc[w] \notin {"unborn", "finished"}

InLoop(w) == wpc[w] \in {"while", "if_paused", "read", "body"}

Processing(w) == wpc[w] \in {"read", "body", "image"}

\* C6: when start is requested while a worker is running, the old worker
\* has left its frame loop and released its source before the new worker
\* begins: no two workers are ever live, so no two frame loops are active,
\* and no worker reads or processes a frame while another holds an open
\* source.
C6_OneLoopAtATime ==
  \A v, w \in Workers :
     v # w =>
       /\ ~(Live(v) /\ Live(w))
       /\ ~(InLoop(v) /\ InLoop(w))
       /\ Live(w) => cap[v] # "open"
       /\ Processing(v) => cap[w] # "open"

\* The new worker of a start requested over a running worker is in its
\* frame loop; the old one finished and released the source it had opened.
C6_Witness ==
  /\ last.op = "restarted"
  /\ wpc[2] = "body" /\ cap[2] = "open"
  /\ wpc[1] = "finished" /\ cap[1] = "released"

\* C7: whenever stop() is called on a started worker, at any moment after
\* start() including immediately after it, the frame loop eventually exits,
\* the source is released and stop() returns to its caller.
C7_StopReturns ==
  \A w \in Workers :
     (ui.pc = "wait" /\ ui.w = w)
        ~> (ui.pc = "idle" /\ wpc[w] = "finished" /\ cap[w] # "open")

\* C8: while the pipeline is paused (toggle_pause() has set the flag or the
\* watchdog has tripped, and it has not been resumed) the worker reads no
\* frame and makes no inference call, under every interleaving.  Stated
\* for the workers of a video source, whose frame loop tests the flag.
C8_NoWorkWhilePaused ==
  \A w \in Workers :
     source[w] = "webcam" =>
       pause_obs[w].reads = 0 /\ pause_obs[w].infers = 0

\* C8 as amended: while paused the worker reads at most one frame and makes
\* at most one inference call, those of the iteration (or of the single
\* image) that had passed its pause test when toggle_pause() set the flag;
\* after a watchdog trip it reads and infers nothing until resumed.
C8_AtMostTheIterationInFlight ==
  \A w \in Workers :
     /\ pause_obs[w].reads <= 1
     /\ pause_obs[w].infers <= 1
     /\ pause_obs[w].by = "watchdog" =>
          pause_obs[w].reads = 0 /\ pause_obs[w].infers = 0

\* Paused by toggle_pause() after the pause test: the frame in flight has
\* been read and inferred, and the loop is back at its pause test, held.
C8_Witness ==
  \E w \in Workers :
     /\ paused[w] /\ wpc[w] = "if_paused"
     /\ pause_obs[w] = [by |-> "toggle_pause", reads |-> 1, infers |-> 1]

(***************************************************************************)
(* Claims about the store's rollups and export.                            *)
(***************************************************************************)
\* C11: after any sequence of record calls, every defect_summary row has
\* total_count = intact_count + damaged_deformed_count + damaged_open_count,
\* and its date has at least one event in the log.
C11_TotalIsSumOfClasses ==
  \A date \in DOMAIN defect_summary :
     /\ defect_summary[date].total =
          defect_summary[date].intact_count
            + defect_summary[date].damaged_deformed_count
            + defect_summary[date].damaged_open_count
     /\ RowsOfDate(detection_results, date) # {}

\* A row rewritten by the ON CONFLICT branch, holding events of two classes.
C11_Witness ==
  /\ last.op = "insert_result" /\ last.fault = "none"
  /\ last.date \in DOMAIN defect_summary
  /\ defect_summary[last.date].total >= 2
  /\ defect_summary[last.date].intact_count >= 1
  /\ defect_summary[last.date].damaged_open_count >= 1

\* The defect_summary after record(e1); record(e2), both statements of both
\* calls executing.
RecordTwo(ts1, s1, ts2, s2) ==
  LET a == InsertResultStore(detection_results, defect_summary, defect_trends,
                             ts1, s1, Details(s1), "none")
  IN  InsertResultStore(a.log, a.summary, a.trends, ts2, s2, Details(s2), "none")

\* The rows two orders leave for a date agree with each other and with
\* the log.
SameRow(ab, ba, date) ==
  /\ date \in DOMAIN ab.summary /\ date \in DOMAIN ba.summary
  /\ ab.summary[date] = ba.summary[date]
  /\ RowCounts(ab.summary[date]) = DateCounts(ab.log, date)

\* C12: for two events on the same date, record(e1); record(e2) and
\* record(e2); record(e1) give the same defect_summary row, whose total is
\* the number of log events of that date and whose per-class counts are the
\* numbers of log events of each class.  Checked from every store the
\* record calls reach (a fetch leaves the store as it found it).
C12_SameDateOrderFree ==
  /\ last.op # "fetch_all_results" =>
       \A ts1, ts2 \in Timestamps : \A s1, s2 \in Labels :
          StrfDate(ts1) = StrfDate(ts2) =>
            SameRow(RecordTwo(ts1, s1, ts2, s2), RecordTwo(ts2, s2, ts1, s1),
                    StrfDate(ts1))
  /\ (last.op = "insert_result" /\ last.fault = "none") =>
       /\ last.date \in DOMAIN defect_summary
       /\ RowCounts(defect_summary[last.date])
            = DateCounts(detection_results, last.date)

\* The spec's example: Intact, Damaged-Open, Damaged-Open on 2024-03-01.
C12_Witness ==
  /\ last.op = "insert_result" /\ last.fault = "none"
  /\ Len(detection_results) = 3
  /\ \A i \in 1 .. 3 : detection_results[i].timestamp = << 2024, 3, 1 >>
  /\ detection_results[1].status = "Intact"
  /\ detection_results[2].status = "Damaged-Open"
  /\ detection_results[3].status = "Damaged-Open"
  /\ RowCounts(defect_summary[<< 2024, 3, 1 >>])
       = [ total |-> 3, intact_count |-> 1, damaged_deformed_count |-> 0,
           damaged_open_count |-> 2 ]

Occurs(seq, x) == Cardinality({ i \in DOMAIN seq : seq[i] = x })

LogRows == [ i \in DOMAIN detection_results |-> FetchedRow(detection_results[i]) ]

\* C13: fetch_all returns one (timestamp, status, details) row for every
\* record call committed before it, no more and no fewer, ordered by
\* non-increasing timestamp.  Stated for a fetch whose SELECT executes.
C13_FetchAllIsTheLogNewestFirst ==
  (last.op = "fetch_all_results" /\ last.fault = "none") =>
     /\ Len(last.rows) = Len(detection_results)
     /\ \A i \in DOMAIN last.rows :
          Occurs(last.rows, last.rows[i]) = Occurs(LogRows, last.rows[i])
     /\ \A i \in DOMAIN LogRows :
          Occurs(last.rows, LogRows[i]) = Occurs(LogRows, LogRows[i])
     /\ \A i, j \in DOMAIN last.rows :
          i < j => ~TsLess(last.rows[i][1], last.rows[j][1])

\* A fetch of three committed rows, the oldest recorded last, one of them
\* twice.
C13_Witness ==
  /\ last.op = "fetch_all_results" /\ last.fault = "none"
  /\ Len(detection_results) = 3
  /\ detection_results[1].timestamp = << 2025, 3, 1 >>
  /\ detection_results[2].timestamp = << 2024, 3, 2 >>
  /\ detection_results[3].timestamp = << 2024, 3, 1 >>
  /\ last.rows[1][1] = << 2025, 3, 1 >>
  /\ last.rows[3][1] = << 2024, 3, 1 >>

(***************************************************************************)
(* Claims about the worker's failures.                                     *)
(***************************************************************************)
\* The worker has just released and reopened its source after a failed read
\* (lines 108-123, the continue branches).
Reacquired(w) ==
  /\ wpc[w] = "while"
  /\ emitted = << Sig("log_message", "End of video or failed to grab frame.") >>

\* C14: after an end-of-stream or read failure the worker re-acquires the
\* source, and it never retries indefinitely: a worker that re-acquires its
\* source again and again also, again and again, has a frame to process or
\* has left its loop.
C14_NoEndlessReconnect ==
  \A w \in Workers :
     ([]<>Reacquired(w)) => ([]<>(wpc[w] = "body" \/ ~InLoop(w)))

Reports(events) ==
  { i \in DOMAIN events : events[i].sig \in {"log_message", "warning_signal"} }

\* C15: every error in the core (source open or read failure, inference
\* failure, store failure in the log append, in either rollup upsert or in
\* the export's select) results in at least one log-message or warning
\* event delivered to the consumer.  Stated for the store's statements.
C15_NoSilentError ==
  (last.op \in {"insert_result", "fetch_all_results"} /\ last.fault # "none")
     => Reports(emitted) # {}

IsErrorLog(e) == e.sig = "log_message" /\ e.arg = "Error during detection"

ErrorLogs(events) == { i \in DOMAIN events : IsErrorLog(events[i]) }

\* C16: when the inference call or the processing of one frame raises, the
\* worker emits one log message and nothing after it for that frame, keeps
\* its running and paused flags, its watchdog count and its open source,
\* and is back at the head of its loop.
C16_ErrorSkipsFrame ==
  [][ \A w \in Workers :
        (wpc[w] = "body" /\ wpc'[w] # "body" /\ ErrorLogs(emitted') # {})
        => /\ ErrorLogs(emitted') = { Len(emitted') }
           /\ running'[w] = running[w]
           /\ paused'[w] = paused[w]
           /\ consecutive_damaged_count'[w] = consecutive_damaged_count[w]
           /\ cap'[w] = "open"
           /\ wpc'[w] = "while" ]_vars

\* A frame whose processing raised after the picture was sent: the worker
\* is running, not paused, at the head of its loop with its source open.
C16_Witness ==
  \E w \in Workers :
     /\ Len(emitted) = 2
     /\ emitted[1].sig = "frame_processed" /\ IsErrorLog(emitted[2])
     /\ wpc[w] = "while" /\ running[w] /\ ~paused[w] /\ cap[w] = "open"

Detected(class_counts) == class_counts["Intact"] + Defective(class_counts)

\* C18: the watchdog count is reset to zero only by an Intact event, by the
\* initial state or by the threshold trip; a frame that carries an Intact
\* detection resets the count (what remains is at most the frame's own
\* defects), and a frame with no detections leaves the count unchanged.
C18_ResetOnlyByIntactOrTrip ==
  last.op = "handle_detections" =>
    /\ (consecutive_damaged_count[W0] = 0 /\ last.pre > 0) =>
          (last.counts["Intact"] > 0 \/ Warnings(emitted) # << >>)
    /\ Detected(last.counts) = 0 => consecutive_damaged_count[W0] = last.pre
    /\ (last.counts["Intact"] > 0 /\ Warnings(emitted) = << >>) =>
          consecutive_damaged_count[W0] <= Defective(last.counts)

\* The watchdog has tripped in the step: handle_detections emitted its
\* warning.
Trips(w) ==
  /\ wpc[w] \in {"body", "image"} /\ wpc'[w] \notin {"body", "image"}
  /\ Warnings(emitted') # << >>

\* C19: the watchdog's pause has the same effect on the pipeline state as a
\* toggle_pause() call made at the same moment would have, in every state
\* in which the watchdog can trip, also when a concurrent toggle_pause()
\* has set paused during that frame's processing.
C19_TripIsAToggle ==
  [][ \A w \in Workers : Trips(w) => paused'[w] = ~paused[w] ]_vars

\* C19 as amended: the watchdog's trip sets paused.  That is the effect of
\* toggle_pause() when the pipeline is not paused; when a concurrent
\* toggle_pause() has already paused it, the trip leaves it paused, where
\* toggle_pause() would resume it.
C19_TripSetsPaused ==
  [][ \A w \in Workers :
        Trips(w) => /\ paused'[w]
                    /\ (~paused[w]) => paused'[w] = ~paused[w]
                    /\ running'[w] = running[w]
                    /\ consecutive_damaged_count'[w] = 0 ]_vars

\* A trip in a frame that was in flight when toggle_pause() paused the
\* worker: it is still paused.
C19_Witness ==
  \E w \in Workers :
     /\ Warnings(emitted) # << >>
     /\ pause_obs[w].by = "toggle_pause" /\ pause_obs[w].infers = 1
     /\ paused[w] /\ wpc[w] = "while"

\* C20: while paused the worker is blocked: a worker that stands at its
\* pause test with paused set takes no step of its own until a resume or a
\* stop signals it.
C20_PausedWorkerTakesNoStep ==
  [][ \A w \in Workers :
        ( /\ wpc[w] = "if_paused" /\ paused[w] /\ running[w]
          /\ paused'[w] /\ running'[w] )
        => wpc'[w] = wpc[w] ]_vars

(***************************************************************************)
(* Claims about the tracker's map.                                         *)
(***************************************************************************)
\* The identities that had a box of a known class in the frame just
\* processed, as observed from the boxes themselves.
PresentIds == { i \in Ids : hist[i] # "none" }

\* C21: after each frame processed by the tracker, the set of tracked
\* identities is exactly the set of identities present in that frame:
\* every identity absent from the frame is dropped, with no grace period.
C21_TrackedIsPresent ==
  last.op = "annotate_frame" =>
     DOMAIN tracked_objects[W0] = PresentIds

\* An identity tracked before the frame is absent from it and dropped,
\* while another identity of the frame is tracked.
C21_Witness ==
  /\ last.op = "annotate_frame"
  /\ \E i \in DOMAIN last.stored :
        /\ i \notin PresentIds
        /\ i \notin DOMAIN tracked_objects[W0]
  /\ DOMAIN tracked_objects[W0] # {}

(***************************************************************************)
(* Claims about the recompute.                                             *)
(***************************************************************************)
\* The record just made executed its log append and its summary upsert.
SummaryWritten ==
  last.op = "insert_result" /\ last.fault \in {"none", "trends"}

\* C22: a successful record for date d leaves defect_summary[d] equal to the
\* per-class counts of all log events of d, also when the upserts of earlier
\* records for d failed; running the recompute again with no new log row
\* leaves the table as it is.
C22_RecomputeHealsAndIsIdempotent ==
  SummaryWritten =>
    /\ ~StaleRow(detection_results, defect_summary, last.date)
    /\ UpdateDefectSummary(defect_summary, detection_results, last.date,
                           StrfYear(last.ts), StrfMonthName(last.ts))
         = defect_summary

\* A record that found the row of its date stale, an earlier upsert for the
\* date having failed, and left it with the count of all three events.
C22_Witness ==
  /\ SummaryWritten /\ last.stale
  /\ defect_summary[last.date].total = 3

(***************************************************************************)
(* Claims about the window's handlers.                                     *)
(***************************************************************************)
\* The step constructs and starts a worker: lines 299-303 of start_detection.
Starts == detection_thread' # None /\ detection_thread' # detection_thread

\* C23: every start begins a run with fresh counters: when start_detection
\* has started a worker, the worker's consecutive-defect count and the
\* window's consecutive-defect count are both zero, so that no defect of an
\* earlier run counts towards a threshold of the new run.
C23_StartBeginsWithFreshCounters ==
  [][ Starts =>
        /\ consecutive_damaged_count'[TheOf(detection_thread')] = 0
        /\ consecutive_defective_count' = 0 ]_vars

\* The worker is in its loop, paused by its own watchdog and not told to stop.
AutoPaused(w) ==
  InLoop(w) /\ paused[w] /\ pause_obs[w].by = "watchdog" /\ running[w]

\* C24: after the watchdog has paused the worker the run stays resumable:
\* the worker stays paused and not stopped until the user stops it, so only
\* the Stop button or a new start may clear the running flag of a worker
\* the watchdog has paused, also once the window has handled every
\* detection_result of the tripping frames.
C24_AutoPausedStaysResumable ==
  [][ \A w \in Workers :
        (AutoPaused(w) /\ ~running'[w])
        => last'.op \in {"stop_detection", "start_detection"} ]_vars

\* The step just taken was the named button's handler calling into a live
\* worker.
Pressed(button) == last.op = "toggle_pause" /\ last.caller = button

\* C25: with a live worker pause_detection() always leaves the worker paused
\* and resume_detection() always leaves it not paused, whatever its pause
\* state before the call.
C25_PauseAndResumeAreAbsolute ==
  \A w \in Workers :
     detection_thread = Some(w) =>
        /\ Pressed("pause_detection") => paused[w]
        /\ Pressed("resume_detection") => ~paused[w]

(***************************************************************************)
(* Claims about crossings within one frame.                                *)
(***************************************************************************)
\* C26: a crossing event is emitted in a frame only for an identity that was
\* already tracked at the end of the previous processed frame: the boxes of
\* a single frame alone produce no crossing event.
C26_CrossingNeedsAnEarlierFrame ==
  last.op = "annotate_frame" =>
    \A i \in Ids :
       Occurrences(last.fired, i) > 0 => i \in DOMAIN last.stored

(***************************************************************************)
(* Claims about the range of the watchdog's count.                         *)
(***************************************************************************)
\* C27: between frames the worker's consecutive-defect count is in
\* 0 .. Threshold - 1: after every handle_detections it is below the
\* threshold, and a frame that brought the sum to the threshold or above
\* has left it at 0 with the worker paused, whatever the excess.
C27_CountBelowThresholdBetweenFrames ==
  /\ consecutive_damaged_count[W0] \in 0 .. Threshold - 1
  /\ ( /\ last.op = "handle_detections"
       /\ last.pre + Defective(last.counts) >= Threshold )
     => (consecutive_damaged_count[W0] = 0 /\ paused[W0])

\* A frame that took a count already above 0 past the threshold.
C27_Witness ==
  /\ last.op = "handle_detections"
  /\ last.pre > 0
  /\ last.pre + Defective(last.counts) > Threshold
  /\ consecutive_damaged_count[W0] = 0
  /\ paused[W0]

====
